---- MODULE Spec2Model ----
(***************************************************************************)
(* The ECMAScript abstract syntax tree of src/ast.rs: the node types, the  *)
(* Clone and PartialEq implementations their #[derive] lines generate, the *)
(* bottom-up construction of trees from already-constructed children, the  *)
(* cells the owned expressions live in, a consumer working on its clone,   *)
(* and readers sharing a finished tree.                                    *)
(***************************************************************************)
EXTENDS Integers, Sequences, FiniteSets, TLC

VARIABLES
    node,       \* the expression the producer constructed last (None before the first)
    supplied,   \* the payload values handed to that constructor, in source order
    copy,       \* a consumer's clone of node (None when there is none)
    edits,      \* how many steps have taken copy away from a fresh clone
    program,    \* the Program root (None until it is constructed)
    nodeAt,     \* the cells the expressions of node live in: <<path, cell>> pairs
    copyAt,     \* the cells the expressions of copy live in
    reading,    \* the readers that hold a shared reference to the tree
    cursor,     \* for each reader, the path to the expression it is at
    seen        \* for each reader, the value it read there (None before it reads)

vars == <<node, supplied, copy, edits, program, nodeAt, copyAt, reading, cursor, seen>>

\* ------------------------------------------------------------------ bounds

\* Longest Vec<Expression> or Vec<Statement> payload a constructor is handed.
MaxLen == 2
\* Most elements a TemplateLiteral is handed.
MaxElements == 3
\* Most formal parameters a Function is handed.
MaxParams == 1
\* Most properties or attributes an ObjectLiteral or JsxElement is handed.
MaxProps == 2
\* Deepest nesting of composite expressions.
MaxDepth == 1
\* Most field replacements a consumer applies to its clone.
MaxEdits == 1

\* ------------------------------------------------------------ scalar types

\* Option<T>
None == [tag |-> "None"]
Some(x) == [tag |-> "Some", f0 |-> x]

\* pub struct NullLiteral;
NullLiteral == [struct |-> "NullLiteral"]

\* pub type BooleanLiteral = bool;
BooleanLiteral == BOOLEAN

\* pub type NumberLiteral = f64; an f64 is its sign bit, its 11 exponent bits and its
\* 52 fraction bits (held as the upper and the lower 26).
PosZero == [sign |-> 0, exp |-> 0, frac_hi |-> 0, frac_lo |-> 0]
NegZero == [sign |-> 1, exp |-> 0, frac_hi |-> 0, frac_lo |-> 0]
One == [sign |-> 0, exp |-> 1023, frac_hi |-> 0, frac_lo |-> 0]
Infinity == [sign |-> 0, exp |-> 2047, frac_hi |-> 0, frac_lo |-> 0]
\* f64::NAN, the quiet NaN
NaN == [sign |-> 0, exp |-> 2047, frac_hi |-> 33554432, frac_lo |-> 0]

NumberLiteral == {PosZero, NegZero, One, Infinity, NaN}

IsNaN(x) == x.exp = 2047 /\ (x.frac_hi # 0 \/ x.frac_lo # 0)
IsZero(x) == x.exp = 0 /\ x.frac_hi = 0 /\ x.frac_lo = 0

\* pub type StringLiteral = String;
StringLiteral == {"s"}

\* pub type Id = String;
Id == {"a", "b", "c"}

\* pub struct RegexLiteral { pattern, flags }
RegexLiteral(pattern, flags) == [struct |-> "RegexLiteral", pattern |-> pattern, flags |-> flags]

\* pub struct TemplateElement { cooked, raw }
TemplateElement(cooked, raw) == [struct |-> "TemplateElement", cooked |-> cooked, raw |-> raw]

\* ------------------------------------------------------------- enumerations

PropertyKind == {"Init", "Get", "Set"}

UpdateOperator == {"Increment", "Decrement"}

UnaryOperator == {"Minus", "Plus", "Not", "BitwiseNot", "Typeof", "Void", "Delete"}

EqualityOperators == {"EqEq", "NotEq", "EqEqEq", "NotEqEq"}
RelationalOperators == {"Lt", "Lte", "Gt", "Gte"}
ShiftOperators == {"Shl", "Shr", "UnsignedShr"}
ArithmeticOperators == {"Plus", "Minus", "Multiply", "Divide", "Mod"}
BitwiseOperators == {"BitwiseOr", "BitwiseXor", "BitwiseAnd"}
LogicalOperators == {"Or", "And"}

\* The operator set of ECMAScript 2015, before `**` was added.
BinaryOperatorWithoutExponentiation ==
    EqualityOperators \cup RelationalOperators \cup ShiftOperators \cup ArithmeticOperators
        \cup BitwiseOperators \cup LogicalOperators \cup {"In", "InstanceOf"}

BinaryOperator ==
    {"EqEq", "NotEq", "EqEqEq", "NotEqEq",
     "Lt", "Lte", "Gt", "Gte",
     "Shl", "Shr", "UnsignedShr",
     "Plus", "Minus", "Multiply", "Divide", "Mod",
     "BitwiseOr", "Or", "BitwiseXor", "BitwiseAnd", "And",
     "In", "InstanceOf", "Exponentiation"}

\* The compound forms alone.
AssignmentOperatorWithoutEq ==
    {"PlusEq", "MinusEq", "MultiplyEq", "DivideEq", "ModEq",
     "ShlEq", "ShrEq", "UnsignedShrEq",
     "BitwiseOrEq", "BitwiseXorEq", "BitwiseAndEq"}

AssignmentOperator ==
    {"Eq", "PlusEq", "MinusEq", "MultiplyEq", "DivideEq", "ModEq",
     "ShlEq", "ShrEq", "UnsignedShrEq",
     "BitwiseOrEq", "BitwiseXorEq", "BitwiseAndEq"}

SourceType == {"Script", "Module"}

\* A Statement with one variant.
StatementWithExpression == {"Expression"}

\* pub enum Statement {}
Statement == {}

\* ------------------------------------------------------ ExpressionLiteral

ExpressionLiteralTags == {"NullLiteral", "BooleanLiteral", "NumberLiteral", "StringLiteral"}

EL_NullLiteral(x) == [tag |-> "NullLiteral", f0 |-> x]
EL_BooleanLiteral(x) == [tag |-> "BooleanLiteral", f0 |-> x]
EL_NumberLiteral(x) == [tag |-> "NumberLiteral", f0 |-> x]
EL_StringLiteral(x) == [tag |-> "StringLiteral", f0 |-> x]

\* A Literal sub-union that also takes the regex literal.
ExpressionLiteralWithRegex ==
    {EL_NullLiteral(NullLiteral)}
        \cup {EL_BooleanLiteral(b) : b \in BooleanLiteral}
        \cup {EL_NumberLiteral(x) : x \in NumberLiteral}
        \cup {EL_StringLiteral(s) : s \in StringLiteral}
        \cup {[tag |-> "RegexLiteral", f0 |-> RegexLiteral("abc", "")]}

ExpressionLiteral ==
    {EL_NullLiteral(NullLiteral)}
        \cup {EL_BooleanLiteral(b) : b \in BooleanLiteral}
        \cup {EL_NumberLiteral(x) : x \in NumberLiteral}
        \cup {EL_StringLiteral(s) : s \in StringLiteral}

\* ------------------------------------------------------------- Expression

ExpressionTags ==
    {"This", "IdReference", "Literal", "ArrayLiteral", "ObjectLiteral", "Function",
     "RegexLiteral", "TemplateLiteral", "Spread", "Member", "Super", "MetaProperty",
     "New", "Call", "TaggedTemplate", "Update", "Unary", "Binary", "Conditional",
     "Assignment", "Yield", "Comma", "JsxElement", "JsxFragment"}

This == [tag |-> "This"]
IdReference(id) == [tag |-> "IdReference", f0 |-> id]
Literal(lit) == [tag |-> "Literal", f0 |-> lit]
ArrayLiteral(elements) == [tag |-> "ArrayLiteral", f0 |-> elements]
ObjectLiteral(properties) == [tag |-> "ObjectLiteral", f0 |-> properties]
Function(id, params, body, async, generator) ==
    [tag |-> "Function", id |-> id, params |-> params, body |-> body,
     async |-> async, generator |-> generator]
RegexLiteralExpr(regex) == [tag |-> "RegexLiteral", f0 |-> regex]
\* A TemplateLiteral that stores its elements last to first.
TemplateLiteralReversed(elements) ==
    [tag |-> "TemplateLiteral",
     f0 |-> [i \in 1..Len(elements) |-> elements[Len(elements) + 1 - i]]]

TemplateLiteral(elements) == [tag |-> "TemplateLiteral", f0 |-> elements]
Spread(e) == [tag |-> "Spread", f0 |-> e]
Member(lhs, rhs, computed) == [tag |-> "Member", lhs |-> lhs, rhs |-> rhs, computed |-> computed]
Super == [tag |-> "Super"]
MetaProperty == [tag |-> "MetaProperty"]
New(callee, arguments) == [tag |-> "New", callee |-> callee, arguments |-> arguments]
Call(callee, arguments) == [tag |-> "Call", callee |-> callee, arguments |-> arguments]
\* A TaggedTemplate that rejects a quasi that is no TemplateLiteral.
TaggedTemplateValidated(tagfn, quasi) ==
    IF quasi.tag = "TemplateLiteral"
      THEN [tag |-> "TaggedTemplate", tagfn |-> tagfn, quasi |-> quasi]
      ELSE [tag |-> "SyntaxError"]

TaggedTemplate(tagfn, quasi) == [tag |-> "TaggedTemplate", tagfn |-> tagfn, quasi |-> quasi]
Update(operator, argument, prefix) ==
    [tag |-> "Update", operator |-> operator, argument |-> argument, prefix |-> prefix]
Unary(operator, argument) == [tag |-> "Unary", operator |-> operator, argument |-> argument]
Binary(operator, lhs, rhs) == [tag |-> "Binary", operator |-> operator, lhs |-> lhs, rhs |-> rhs]
\* A Conditional with the field names in their conventional roles.
ConditionalConventional(test, alternate, consequent) ==
    [tag |-> "Conditional", test |-> test, alternate |-> consequent, consequent |-> alternate]

\* "This is of the form (test ? alternate : consequent)"
Conditional(test, alternate, consequent) ==
    [tag |-> "Conditional", test |-> test, alternate |-> alternate, consequent |-> consequent]
Assignment(operator, lhs, rhs) ==
    [tag |-> "Assignment", operator |-> operator, lhs |-> lhs, rhs |-> rhs]
Yield(argument, delegate) == [tag |-> "Yield", argument |-> argument, delegate |-> delegate]
Comma(elements) == [tag |-> "Comma", f0 |-> elements]
JsxElement(name, attributes, children) ==
    [tag |-> "JsxElement", name |-> name, attributes |-> attributes, children |-> children]
JsxFragment(children) == [tag |-> "JsxFragment", f0 |-> children]

\* pub struct Property { key, value, kind }
Property(key, value, kind) == [struct |-> "Property", key |-> key, value |-> value, kind |-> kind]

\* pub enum TemplateLiteralElement
TLE_TemplateElement(t) == [tag |-> "TemplateElement", f0 |-> t]
TLE_Expression(e) == [tag |-> "Expression", f0 |-> e]

\* pub enum JsxAttribute
JA_JsxSpreadAttribute(expression) == [tag |-> "JsxSpreadAttribute", expression |-> expression]
JA_JsxAttribute(name, value) == [tag |-> "JsxAttribute", name |-> name, value |-> value]

\* pub struct Program { source_type, body }
Program(source_type, body) == [tag |-> "Program", source_type |-> source_type, body |-> body]

\* ---------------------------------------------- #[derive(PartialEq)]

\* f64 == f64: IEEE-754 comparison. NaN equals nothing, the two zeros are equal.
F64Eq(x, y) ==
    /\ ~IsNaN(x)
    /\ ~IsNaN(y)
    /\ \/ IsZero(x) /\ IsZero(y)
       \/ x = y

\* String == String, bool == bool, a field-less enum == itself
ScalarEq(x, y) == x = y

NullLiteralEq(x, y) == TRUE

RegexLiteralEq(x, y) == ScalarEq(x.pattern, y.pattern) /\ ScalarEq(x.flags, y.flags)

TemplateElementEq(x, y) == ScalarEq(x.cooked, y.cooked) /\ ScalarEq(x.raw, y.raw)

ExpressionLiteralEq(x, y) ==
    /\ x.tag = y.tag
    /\ CASE x.tag = "NullLiteral" -> NullLiteralEq(x.f0, y.f0)
         [] x.tag = "BooleanLiteral" -> ScalarEq(x.f0, y.f0)
         [] x.tag = "NumberLiteral" -> F64Eq(x.f0, y.f0)
         [] x.tag = "StringLiteral" -> ScalarEq(x.f0, y.f0)

\* Vec<String> == Vec<String>, Vec<Statement> == Vec<Statement>
VecScalarEq(xs, ys) ==
    /\ Len(xs) = Len(ys)
    /\ \A i \in 1..Len(xs) : ScalarEq(xs[i], ys[i])

\* Option<Id> == Option<Id>
OptionScalarEq(x, y) ==
    /\ x.tag = y.tag
    /\ x.tag = "Some" => ScalarEq(x.f0, y.f0)

RECURSIVE ExpressionEq(_, _)
RECURSIVE VecExpressionEq(_, _)
RECURSIVE OptionExpressionEq(_, _)
RECURSIVE PropertyEq(_, _)
RECURSIVE VecPropertyEq(_, _)
RECURSIVE TemplateLiteralElementEq(_, _)
RECURSIVE VecTemplateLiteralElementEq(_, _)
RECURSIVE JsxAttributeEq(_, _)
RECURSIVE VecJsxAttributeEq(_, _)

\* An equality of Vecs that looks for each element anywhere in the other Vec.
VecExpressionEqUnordered(xs, ys) ==
    /\ Len(xs) = Len(ys)
    /\ \A i \in 1..Len(xs) : \E j \in 1..Len(ys) : ExpressionEq(xs[i], ys[j])

VecExpressionEq(xs, ys) ==
    /\ Len(xs) = Len(ys)
    /\ \A i \in 1..Len(xs) : ExpressionEq(xs[i], ys[i])

OptionExpressionEq(x, y) ==
    /\ x.tag = y.tag
    /\ x.tag = "Some" => ExpressionEq(x.f0, y.f0)

PropertyEq(x, y) ==
    /\ ExpressionEq(x.key, y.key)
    /\ ExpressionEq(x.value, y.value)
    /\ ScalarEq(x.kind, y.kind)

VecPropertyEq(xs, ys) ==
    /\ Len(xs) = Len(ys)
    /\ \A i \in 1..Len(xs) : PropertyEq(xs[i], ys[i])

TemplateLiteralElementEq(x, y) ==
    /\ x.tag = y.tag
    /\ CASE x.tag = "TemplateElement" -> TemplateElementEq(x.f0, y.f0)
         [] x.tag = "Expression" -> ExpressionEq(x.f0, y.f0)

VecTemplateLiteralElementEq(xs, ys) ==
    /\ Len(xs) = Len(ys)
    /\ \A i \in 1..Len(xs) : TemplateLiteralElementEq(xs[i], ys[i])

JsxAttributeEq(x, y) ==
    /\ x.tag = y.tag
    /\ CASE x.tag = "JsxSpreadAttribute" -> ExpressionEq(x.expression, y.expression)
         [] x.tag = "JsxAttribute" ->
                ScalarEq(x.name, y.name) /\ OptionExpressionEq(x.value, y.value)

VecJsxAttributeEq(xs, ys) ==
    /\ Len(xs) = Len(ys)
    /\ \A i \in 1..Len(xs) : JsxAttributeEq(xs[i], ys[i])

\* An equality that leaves the prefix flag of Update out of the comparison.
ExpressionEqSkippingPrefix(x, y) ==
    /\ x.tag = y.tag
    /\ IF x.tag = "Update"
          THEN x.operator = y.operator /\ x.argument = y.argument
          ELSE x = y

ExpressionEq(x, y) ==
    /\ x.tag = y.tag
    /\ CASE x.tag \in {"This", "Super", "MetaProperty"} -> TRUE
         [] x.tag = "IdReference" -> ScalarEq(x.f0, y.f0)
         [] x.tag = "Literal" -> ExpressionLiteralEq(x.f0, y.f0)
         [] x.tag \in {"ArrayLiteral", "Comma", "JsxFragment"} -> VecExpressionEq(x.f0, y.f0)
         [] x.tag = "ObjectLiteral" -> VecPropertyEq(x.f0, y.f0)
         [] x.tag = "Function" ->
                /\ OptionScalarEq(x.id, y.id)
                /\ VecScalarEq(x.params, y.params)
                /\ VecScalarEq(x.body, y.body)
                /\ ScalarEq(x.async, y.async)
                /\ ScalarEq(x.generator, y.generator)
         [] x.tag = "RegexLiteral" -> RegexLiteralEq(x.f0, y.f0)
         [] x.tag = "TemplateLiteral" -> VecTemplateLiteralElementEq(x.f0, y.f0)
         [] x.tag = "Spread" -> ExpressionEq(x.f0, y.f0)
         [] x.tag = "Member" ->
                /\ ExpressionEq(x.lhs, y.lhs)
                /\ ExpressionEq(x.rhs, y.rhs)
                /\ ScalarEq(x.computed, y.computed)
         [] x.tag \in {"New", "Call"} ->
                /\ ExpressionEq(x.callee, y.callee)
                /\ VecExpressionEq(x.arguments, y.arguments)
         [] x.tag = "TaggedTemplate" ->
                /\ ExpressionEq(x.tagfn, y.tagfn)
                /\ ExpressionEq(x.quasi, y.quasi)
         [] x.tag = "Update" ->
                /\ ScalarEq(x.operator, y.operator)
                /\ ExpressionEq(x.argument, y.argument)
                /\ ScalarEq(x.prefix, y.prefix)
         [] x.tag = "Unary" ->
                /\ ScalarEq(x.operator, y.operator)
                /\ ExpressionEq(x.argument, y.argument)
         [] x.tag \in {"Binary", "Assignment"} ->
                /\ ScalarEq(x.operator, y.operator)
                /\ ExpressionEq(x.lhs, y.lhs)
                /\ ExpressionEq(x.rhs, y.rhs)
         [] x.tag = "Conditional" ->
                /\ ExpressionEq(x.test, y.test)
                /\ ExpressionEq(x.alternate, y.alternate)
                /\ ExpressionEq(x.consequent, y.consequent)
         [] x.tag = "Yield" ->
                /\ OptionExpressionEq(x.argument, y.argument)
                /\ ScalarEq(x.delegate, y.delegate)
         [] x.tag = "JsxElement" ->
                /\ ScalarEq(x.name, y.name)
                /\ VecJsxAttributeEq(x.attributes, y.attributes)
                /\ VecExpressionEq(x.children, y.children)

ProgramEq(x, y) ==
    /\ ScalarEq(x.source_type, y.source_type)
    /\ VecScalarEq(x.body, y.body)

\* --------------------------------------------------- #[derive(Clone)]

\* String::clone, bool::clone, f64::clone, a field-less enum's clone: a copy of the value
ScalarClone(x) == x

NullLiteralClone(x) == NullLiteral

RegexLiteralClone(x) == RegexLiteral(ScalarClone(x.pattern), ScalarClone(x.flags))

TemplateElementClone(x) == TemplateElement(ScalarClone(x.cooked), ScalarClone(x.raw))

ExpressionLiteralClone(x) ==
    CASE x.tag = "NullLiteral" -> EL_NullLiteral(NullLiteralClone(x.f0))
      [] x.tag = "BooleanLiteral" -> EL_BooleanLiteral(ScalarClone(x.f0))
      [] x.tag = "NumberLiteral" -> EL_NumberLiteral(ScalarClone(x.f0))
      [] x.tag = "StringLiteral" -> EL_StringLiteral(ScalarClone(x.f0))

VecScalarClone(xs) == [i \in 1..Len(xs) |-> ScalarClone(xs[i])]

OptionScalarClone(x) == IF x.tag = "Some" THEN Some(ScalarClone(x.f0)) ELSE None

RECURSIVE ExpressionClone(_)
RECURSIVE VecExpressionClone(_)
RECURSIVE OptionExpressionClone(_)
RECURSIVE PropertyClone(_)
RECURSIVE VecPropertyClone(_)
RECURSIVE TemplateLiteralElementClone(_)
RECURSIVE VecTemplateLiteralElementClone(_)
RECURSIVE JsxAttributeClone(_)
RECURSIVE VecJsxAttributeClone(_)

\* A clone that copies all but the last element of a Vec.
VecExpressionCloneTruncated(xs) == [i \in 1..(Len(xs) - 1) |-> xs[i]]

VecExpressionClone(xs) == [i \in 1..Len(xs) |-> ExpressionClone(xs[i])]

OptionExpressionClone(x) == IF x.tag = "Some" THEN Some(ExpressionClone(x.f0)) ELSE None

PropertyClone(x) ==
    Property(ExpressionClone(x.key), ExpressionClone(x.value), ScalarClone(x.kind))

VecPropertyClone(xs) == [i \in 1..Len(xs) |-> PropertyClone(xs[i])]

TemplateLiteralElementClone(x) ==
    CASE x.tag = "TemplateElement" -> TLE_TemplateElement(TemplateElementClone(x.f0))
      [] x.tag = "Expression" -> TLE_Expression(ExpressionClone(x.f0))

VecTemplateLiteralElementClone(xs) ==
    [i \in 1..Len(xs) |-> TemplateLiteralElementClone(xs[i])]

JsxAttributeClone(x) ==
    CASE x.tag = "JsxSpreadAttribute" -> JA_JsxSpreadAttribute(ExpressionClone(x.expression))
      [] x.tag = "JsxAttribute" ->
             JA_JsxAttribute(ScalarClone(x.name), OptionExpressionClone(x.value))

VecJsxAttributeClone(xs) == [i \in 1..Len(xs) |-> JsxAttributeClone(xs[i])]

ExpressionClone(x) ==
    CASE x.tag = "This" -> This
      [] x.tag = "Super" -> Super
      [] x.tag = "MetaProperty" -> MetaProperty
      [] x.tag = "IdReference" -> IdReference(ScalarClone(x.f0))
      [] x.tag = "Literal" -> Literal(ExpressionLiteralClone(x.f0))
      [] x.tag = "ArrayLiteral" -> ArrayLiteral(VecExpressionClone(x.f0))
      [] x.tag = "ObjectLiteral" -> ObjectLiteral(VecPropertyClone(x.f0))
      [] x.tag = "Function" ->
             Function(OptionScalarClone(x.id), VecScalarClone(x.params),
                      VecScalarClone(x.body), ScalarClone(x.async), ScalarClone(x.generator))
      [] x.tag = "RegexLiteral" -> RegexLiteralExpr(RegexLiteralClone(x.f0))
      [] x.tag = "TemplateLiteral" -> TemplateLiteral(VecTemplateLiteralElementClone(x.f0))
      [] x.tag = "Spread" -> Spread(ExpressionClone(x.f0))
      [] x.tag = "Member" ->
             Member(ExpressionClone(x.lhs), ExpressionClone(x.rhs), ScalarClone(x.computed))
      [] x.tag = "New" -> New(ExpressionClone(x.callee), VecExpressionClone(x.arguments))
      [] x.tag = "Call" -> Call(ExpressionClone(x.callee), VecExpressionClone(x.arguments))
      [] x.tag = "TaggedTemplate" ->
             TaggedTemplate(ExpressionClone(x.tagfn), ExpressionClone(x.quasi))
      [] x.tag = "Update" ->
             Update(ScalarClone(x.operator), ExpressionClone(x.argument), ScalarClone(x.prefix))
      [] x.tag = "Unary" -> Unary(ScalarClone(x.operator), ExpressionClone(x.argument))
      [] x.tag = "Binary" ->
             Binary(ScalarClone(x.operator), ExpressionClone(x.lhs), ExpressionClone(x.rhs))
      [] x.tag = "Conditional" ->
             Conditional(ExpressionClone(x.test), ExpressionClone(x.alternate),
                         ExpressionClone(x.consequent))
      [] x.tag = "Assignment" ->
             Assignment(ScalarClone(x.operator), ExpressionClone(x.lhs), ExpressionClone(x.rhs))
      [] x.tag = "Yield" -> Yield(OptionExpressionClone(x.argument), ScalarClone(x.delegate))
      [] x.tag = "Comma" -> Comma(VecExpressionClone(x.f0))
      [] x.tag = "JsxElement" ->
             JsxElement(ScalarClone(x.name), VecJsxAttributeClone(x.attributes),
                        VecExpressionClone(x.children))
      [] x.tag = "JsxFragment" -> JsxFragment(VecExpressionClone(x.f0))

ProgramClone(x) == Program(ScalarClone(x.source_type), VecScalarClone(x.body))

\* ----------------------------------------------------------- traversal

Max(a, b) == IF a >= b THEN a ELSE b

\* the elements of a Vec, as a set
Elems(xs) == {xs[i] : i \in 1..Len(xs)}

\* The expressions a node owns directly: its Box<Expression>, Vec<Expression> and
\* Option<Expression> fields and those of its properties, elements and attributes.
ChildExpressions(x) ==
    CASE x.tag \in {"ArrayLiteral", "Comma", "JsxFragment"} -> Elems(x.f0)
      [] x.tag = "ObjectLiteral" ->
             {x.f0[i].key : i \in 1..Len(x.f0)} \cup {x.f0[i].value : i \in 1..Len(x.f0)}
      [] x.tag = "TemplateLiteral" ->
             {x.f0[i].f0 : i \in {j \in 1..Len(x.f0) : x.f0[j].tag = "Expression"}}
      [] x.tag = "Spread" -> {x.f0}
      [] x.tag = "Member" -> {x.lhs, x.rhs}
      [] x.tag \in {"New", "Call"} -> {x.callee} \cup Elems(x.arguments)
      [] x.tag = "TaggedTemplate" -> {x.tagfn, x.quasi}
      [] x.tag \in {"Update", "Unary"} -> {x.argument}
      [] x.tag \in {"Binary", "Assignment"} -> {x.lhs, x.rhs}
      [] x.tag = "Conditional" -> {x.test, x.alternate, x.consequent}
      [] x.tag = "Yield" -> IF x.argument.tag = "Some" THEN {x.argument.f0} ELSE {}
      [] x.tag = "JsxElement" ->
             Elems(x.children)
                 \cup {x.attributes[i].expression :
                          i \in {j \in 1..Len(x.attributes) :
                                    x.attributes[j].tag = "JsxSpreadAttribute"}}
                 \cup {x.attributes[i].value.f0 :
                          i \in {j \in 1..Len(x.attributes) :
                                    /\ x.attributes[j].tag = "JsxAttribute"
                                    /\ x.attributes[j].value.tag = "Some"}}
      [] OTHER -> {}

RECURSIVE Depth(_)
Depth(x) ==
    LET RECURSIVE Deepest(_)
        Deepest(S) ==
            IF S = {} THEN 0
            ELSE LET c == CHOOSE c \in S : TRUE
                 IN  Max(Depth(c), Deepest(S \ {c}))
    IN  IF ChildExpressions(x) = {} THEN 0 ELSE 1 + Deepest(ChildExpressions(x))

\* x and every expression below it
RECURSIVE Subexpressions(_)
Subexpressions(x) == {x} \cup UNION {Subexpressions(c) : c \in ChildExpressions(x)}

\* ------------------------------------------------------------ ownership

\* The place of an owned expression inside its owner: field f, position i in the Vec
\* held there (0 when f holds no Vec), then the fields g and h of the value found there
\* ("" when there is none): attributes[2].value.f0 is Slot("attributes", 2, "value", "f0").
Slot(f, i, g, h) == [f |-> f, i |-> i, g |-> g, h |-> h]

\* The slots in which x owns an expression: every Box<Expression>, every element of a
\* Vec<Expression>, and the expressions inside its properties, elements and attributes.
Slots(x) ==
    CASE x.tag \in {"ArrayLiteral", "Comma", "JsxFragment"} ->
             {Slot("f0", i, "", "") : i \in 1..Len(x.f0)}
      [] x.tag = "ObjectLiteral" ->
             {Slot("f0", i, g, "") : i \in 1..Len(x.f0), g \in {"key", "value"}}
      [] x.tag = "TemplateLiteral" ->
             {Slot("f0", i, "f0", "") :
                 i \in {j \in 1..Len(x.f0) : x.f0[j].tag = "Expression"}}
      [] x.tag = "Spread" -> {Slot("f0", 0, "", "")}
      [] x.tag \in {"Member", "Binary", "Assignment"} ->
             {Slot("lhs", 0, "", ""), Slot("rhs", 0, "", "")}
      [] x.tag \in {"New", "Call"} ->
             {Slot("callee", 0, "", "")}
                 \cup {Slot("arguments", i, "", "") : i \in 1..Len(x.arguments)}
      [] x.tag = "TaggedTemplate" -> {Slot("tagfn", 0, "", ""), Slot("quasi", 0, "", "")}
      [] x.tag \in {"Update", "Unary"} -> {Slot("argument", 0, "", "")}
      [] x.tag = "Conditional" ->
             {Slot("test", 0, "", ""), Slot("alternate", 0, "", ""),
              Slot("consequent", 0, "", "")}
      [] x.tag = "Yield" ->
             IF x.argument.tag = "Some" THEN {Slot("argument", 0, "f0", "")} ELSE {}
      [] x.tag = "JsxElement" ->
             {Slot("children", i, "", "") : i \in 1..Len(x.children)}
                 \cup {Slot("attributes", i, "expression", "") :
                          i \in {j \in 1..Len(x.attributes) :
                                    x.attributes[j].tag = "JsxSpreadAttribute"}}
                 \cup {Slot("attributes", i, "value", "f0") :
                          i \in {j \in 1..Len(x.attributes) :
                                    /\ x.attributes[j].tag = "JsxAttribute"
                                    /\ x.attributes[j].value.tag = "Some"}}
      [] OTHER -> {}

\* the expression x owns in slot s
Owned(x, s) ==
    LET held == IF s.i = 0 THEN x[s.f] ELSE x[s.f][s.i]
    IN  IF s.g = "" THEN held
        ELSE IF s.h = "" THEN held[s.g]
        ELSE held[s.g][s.h]

\* x with the expression in slot s replaced by v
WithOwned(x, s, v) ==
    IF s.i = 0
      THEN IF s.g = "" THEN [x EXCEPT ![s.f] = v]
           ELSE [x EXCEPT ![s.f][s.g] = v]
      ELSE IF s.g = "" THEN [x EXCEPT ![s.f][s.i] = v]
           ELSE IF s.h = "" THEN [x EXCEPT ![s.f][s.i][s.g] = v]
           ELSE [x EXCEPT ![s.f][s.i][s.g][s.h] = v]

\* The paths from x to x itself (the empty path) and to every expression below it.
RECURSIVE Paths(_)
Paths(x) ==
    {<<>>} \cup UNION {{<<s>> \o p : p \in Paths(Owned(x, s))} : s \in Slots(x)}

\* the expression at the end of path p from x
RECURSIVE At(_, _)
At(x, p) == IF p = <<>> THEN x ELSE At(Owned(x, Head(p)), Tail(p))

\* x with the expression at the end of path p replaced by v
RECURSIVE Put(_, _, _)
Put(x, p, v) ==
    IF p = <<>> THEN v
    ELSE WithOwned(x, Head(p), Put(Owned(x, Head(p)), Tail(p), v))

\* Where the expressions of a tree live: a set of <<path, cell>> pairs, the cell being
\* the number of the Box, Vec element or local that holds the expression at that path.
Cells(at) == {pc[2] : pc \in at}

\* the highest cell in use (0 when there is none)
LastCell(at) ==
    LET cells == Cells(at)
    IN  IF cells = {} THEN 0 ELSE CHOOSE c \in cells : \A d \in cells : d <= c

\* the paths that lead to a cell
PathsTo(at, c) == {pc[1] : pc \in {qd \in at : qd[2] = c}}

\* A new cell for each of the paths P, above base.
RECURSIVE Fresh(_, _)
Fresh(P, base) ==
    IF P = {} THEN {}
    ELSE LET p == CHOOSE q \in P : TRUE
         IN  {<<p, base + 1>>} \cup Fresh(P \ {p}, base + 1)

\* Box::new(x), vec![x]: every expression of a newly built value has a cell of its own.
Allocate(x, base) == Fresh(Paths(x), base)

\* A parent whose every slot holding the child points at the child's one set of cells,
\* as reference-counted children would.
AdoptShared(parent, child, childAt) ==
    LET holders == {s \in Slots(parent) : Owned(parent, s) = child}
        shared == UNION {{<<(<<s>> \o pc[1]), pc[2]>> : pc \in childAt} : s \in holders}
    IN  shared \cup Fresh(Paths(parent) \ {pc[1] : pc \in shared}, LastCell(childAt))

\* Constructing parent moves child into it: the child's cells become the cells of the
\* one slot that takes it, and the parent and whatever else it is handed get new cells.
\* A child that no slot takes is dropped and its cells are released.
Adopt(parent, child, childAt) ==
    LET holders == {s \in Slots(parent) : Owned(parent, s) = child}
    IN  IF holders = {} THEN Allocate(parent, 0)
        ELSE LET s == CHOOSE h \in holders : TRUE
                 moved == {<<(<<s>> \o pc[1]), pc[2]>> : pc \in childAt}
             IN  moved \cup Fresh(Paths(parent) \ {pc[1] : pc \in moved}, LastCell(childAt))

\* A clone whose root is new but whose children are the original's own cells.
CloneCellsShallow(x, originalAt) ==
    {<<(<<>>), LastCell(originalAt) + 1>>} \cup {pc \in originalAt : pc[1] # <<>>}

\* #[derive(Clone)]: Box<T>::clone and Vec<T>::clone allocate anew, so the clone of a
\* tree lives in cells of its own throughout.
CloneCells(x, originalAt) == Allocate(x, LastCell(originalAt))

\* The tree x living at `at` after field f of cell c has been assigned v: the
\* assignment shows at every path of x that leads to c.
RECURSIVE Stored(_, _, _, _, _)
Stored(x, at, c, f, v) ==
    LET there == PathsTo(at, c)
    IN  IF there = {} \/ x.tag = "None" THEN x
        ELSE LET p == CHOOSE q \in there : TRUE
                 y == Put(x, p, [At(x, p) EXCEPT ![f] = v])
             IN  Stored(y, at \ {<<p, c>>}, c, f, v)

\* ------------------------------------------------------------- the inputs

SeqsUpTo(S, n) == UNION {[1..k -> S] : k \in 0..n}

\* Already-constructed expressions a constructor is handed besides node.
Operands == {IdReference("b"), IdReference("c")}

Kids == {node} \cup Operands

Patterns == {"abc"}
Flags == {"", "gi"}
FunctionNames == {"f"}
Params == {"a"}
ElementNames == {"div"}
AttributeNames == {"key"}
QuasiTexts == {TemplateElement("x", "x"), TemplateElement("z", "z")}

\* The properties, template elements and attributes a producer can build around e.
PropertiesOf(e) == {Property(k, e, kind) : k \in Operands, kind \in PropertyKind}

TemplateElementsOf(e) == {TLE_TemplateElement(q) : q \in QuasiTexts} \cup {TLE_Expression(e)}

AttributesOf(e) ==
    {JA_JsxSpreadAttribute(e)}
        \cup {JA_JsxAttribute(n, v) : n \in AttributeNames, v \in {None, Some(e)}}

\* ------------------------------------------------------------ the producer

Constructed(args) ==
    /\ supplied' = args
    /\ copy' = None
    /\ edits' = 0
    /\ nodeAt' = Adopt(node', node, nodeAt)
    /\ copyAt' = {}
    /\ UNCHANGED <<program, reading, cursor, seen>>

\* No reader holds a reference to the tree: its owner may move, assign or drop it.
Unborrowed == reading = {}

\* The producer starts a new expression when it holds none and the root is not built.
CanStart == node = None /\ program = None

\* The producer wraps the expression it holds, none of whose expressions lies MaxDepth
\* deep, into a larger one.
CanWrap ==
    /\ node # None
    /\ Unborrowed
    /\ \A pc \in nodeAt : Len(pc[1]) < MaxDepth

MkThis ==
    /\ CanStart
    /\ node' = This
    /\ Constructed(<<>>)

MkSuper ==
    /\ CanStart
    /\ node' = Super
    /\ Constructed(<<>>)

MkMetaProperty ==
    /\ CanStart
    /\ node' = MetaProperty
    /\ Constructed(<<>>)

MkIdReference ==
    /\ CanStart
    /\ \E id \in Id :
          /\ node' = IdReference(id)
          /\ Constructed(<<id>>)

MkLiteral ==
    /\ CanStart
    /\ \E lit \in ExpressionLiteral :
          /\ node' = Literal(lit)
          /\ Constructed(<<lit>>)

MkRegexLiteral ==
    /\ CanStart
    /\ \E pattern \in Patterns, flags \in Flags :
          /\ node' = RegexLiteralExpr(RegexLiteral(pattern, flags))
          /\ Constructed(<<pattern, flags>>)

MkFunction ==
    /\ CanStart
    /\ \E id \in {None} \cup {Some(n) : n \in FunctionNames},
          params \in SeqsUpTo(Params, MaxParams),
          body \in SeqsUpTo(Statement, MaxLen),
          async \in BOOLEAN, generator \in BOOLEAN :
          /\ node' = Function(id, params, body, async, generator)
          /\ Constructed(<<id, params, body, async, generator>>)

MkArrayLiteral ==
    /\ CanWrap
    /\ \E elements \in SeqsUpTo(Kids, MaxLen) :
          /\ node' = ArrayLiteral(elements)
          /\ Constructed(<<elements>>)

MkObjectLiteral ==
    /\ CanWrap
    /\ \E properties \in SeqsUpTo(PropertiesOf(node), MaxProps) :
          /\ node' = ObjectLiteral(properties)
          /\ Constructed(<<properties>>)

MkTemplateLiteral ==
    /\ CanWrap
    /\ \E elements \in SeqsUpTo(TemplateElementsOf(node), MaxElements) :
          /\ node' = TemplateLiteral(elements)
          /\ Constructed(<<elements>>)

MkSpread ==
    /\ CanWrap
    /\ node' = Spread(node)
    /\ Constructed(<<node>>)

MkMember ==
    /\ CanWrap
    /\ \E lhs \in Kids, rhs \in Kids, computed \in BOOLEAN :
          /\ node' = Member(lhs, rhs, computed)
          /\ Constructed(<<lhs, rhs, computed>>)

MkNew ==
    /\ CanWrap
    /\ \E arguments \in SeqsUpTo(Operands, MaxLen) :
          /\ node' = New(node, arguments)
          /\ Constructed(<<node, arguments>>)

MkCall ==
    /\ CanWrap
    /\ \E arguments \in SeqsUpTo(Operands, MaxLen) :
          /\ node' = Call(node, arguments)
          /\ Constructed(<<node, arguments>>)

MkTaggedTemplate ==
    /\ CanWrap
    /\ \E tagfn \in Kids, quasi \in Kids :
          /\ node' = TaggedTemplate(tagfn, quasi)
          /\ Constructed(<<tagfn, quasi>>)

MkUpdate ==
    /\ CanWrap
    /\ \E operator \in UpdateOperator, prefix \in BOOLEAN :
          /\ node' = Update(operator, node, prefix)
          /\ Constructed(<<operator, node, prefix>>)

MkUnary ==
    /\ CanWrap
    /\ \E operator \in UnaryOperator :
          /\ node' = Unary(operator, node)
          /\ Constructed(<<operator, node>>)

MkBinary ==
    /\ CanWrap
    /\ \E operator \in BinaryOperator, rhs \in Operands :
          /\ node' = Binary(operator, node, rhs)
          /\ Constructed(<<operator, node, rhs>>)

\* the producer reads `test ? x : y` and hands the three operands over in source order
MkConditional ==
    /\ CanWrap
    /\ \E x \in Kids, y \in Kids :
          /\ node' = Conditional(node, x, y)
          /\ Constructed(<<node, x, y>>)

MkAssignment ==
    /\ CanWrap
    /\ \E operator \in AssignmentOperator, rhs \in Operands :
          /\ node' = Assignment(operator, node, rhs)
          /\ Constructed(<<operator, node, rhs>>)

MkYield ==
    /\ CanWrap
    /\ \E argument \in {None, Some(node)}, delegate \in BOOLEAN :
          /\ node' = Yield(argument, delegate)
          /\ Constructed(<<argument, delegate>>)

MkComma ==
    /\ CanWrap
    /\ \E elements \in SeqsUpTo(Kids, MaxLen) :
          /\ node' = Comma(elements)
          /\ Constructed(<<elements>>)

MkJsxElement ==
    /\ CanWrap
    /\ \E name \in ElementNames,
          attributes \in SeqsUpTo(AttributesOf(node), MaxProps),
          children \in SeqsUpTo({node}, MaxProps) :
          /\ node' = JsxElement(name, attributes, children)
          /\ Constructed(<<name, attributes, children>>)

MkJsxFragment ==
    /\ CanWrap
    /\ \E children \in SeqsUpTo(Kids, MaxLen) :
          /\ node' = JsxFragment(children)
          /\ Constructed(<<children>>)

\* The producer lets go of the expression it holds (no Statement can take it).
Drop ==
    /\ node # None
    /\ Unborrowed
    /\ node' = None
    /\ supplied' = <<>>
    /\ copy' = None
    /\ edits' = 0
    /\ nodeAt' = {}
    /\ copyAt' = {}
    /\ UNCHANGED <<program, reading, cursor, seen>>

\* The producer ends the parse with the root.
MkProgram ==
    /\ CanStart
    /\ \E source_type \in SourceType, body \in SeqsUpTo(Statement, MaxLen) :
          /\ program' = Program(source_type, body)
          /\ supplied' = <<source_type, body>>
    /\ UNCHANGED <<node, copy, edits, nodeAt, copyAt, reading, cursor, seen>>

\* ------------------------------------------------------------ the consumer

\* let mut c = node.clone();
CloneNode ==
    /\ node # None
    /\ copy' = ExpressionClone(node)
    /\ copyAt' = CloneCells(copy', nodeAt)
    /\ edits' = 0
    /\ UNCHANGED <<node, supplied, program, nodeAt, reading, cursor, seen>>

\* The operators an expression with the given tag can carry.
OperatorsOf(tag) ==
    CASE tag = "Update" -> UpdateOperator
      [] tag = "Unary" -> UnaryOperator
      [] tag = "Binary" -> BinaryOperator
      [] tag = "Assignment" -> AssignmentOperator

\* let mut c = program.clone();
CloneProgram ==
    /\ program # None
    /\ copy' = ProgramClone(program)
    /\ copyAt' = CloneCells(copy', nodeAt)
    /\ edits' = 0
    /\ UNCHANGED <<node, supplied, program, nodeAt, reading, cursor, seen>>

\* The values a consumer can store in the tuple field of an expression with the given tag.
TupleFieldValues(tag) ==
    CASE tag = "IdReference" -> Id
      [] tag = "Literal" -> ExpressionLiteral
      [] tag = "RegexLiteral" -> {RegexLiteral(p, fl) : p \in Patterns, fl \in Flags}
      [] tag = "Spread" -> Operands
      [] tag = "ObjectLiteral" -> SeqsUpTo({Property(k, k, "Init") : k \in Operands}, 1)
      [] tag = "TemplateLiteral" -> SeqsUpTo({TLE_TemplateElement(q) : q \in QuasiTexts}, 1)
      [] OTHER -> SeqsUpTo(Operands, 1)

\* The values a consumer can store in field f of an expression with the given tag.
FieldValues(tag, f) ==
    CASE f \in {"computed", "prefix", "delegate", "async", "generator"} -> BOOLEAN
      [] f = "operator" -> OperatorsOf(tag)
      [] f \in {"lhs", "rhs", "callee", "tagfn", "quasi", "test", "alternate", "consequent"} ->
             Operands
      [] f = "argument" ->
             IF tag = "Yield" THEN {None} \cup {Some(o) : o \in Operands} ELSE Operands
      [] f \in {"arguments", "children"} -> SeqsUpTo(Operands, 1)
      [] f = "attributes" -> SeqsUpTo({JA_JsxAttribute(n, None) : n \in AttributeNames}, 1)
      [] f = "name" -> ElementNames
      [] f = "id" -> {None} \cup {Some(n) : n \in FunctionNames}
      [] f = "params" -> SeqsUpTo(Params, 1)
      [] f = "body" -> SeqsUpTo(Statement, 1)
      [] f = "source_type" -> SourceType
      [] f = "f0" -> TupleFieldValues(tag)

\* path q lies below field f of the expression at path p
Below(q, p, f) ==
    /\ Len(q) > Len(p)
    /\ SubSeq(q, 1, Len(p)) = p
    /\ q[Len(p) + 1].f = f

\* The cells of x after field f of its expression at path p was assigned: what lay
\* below the field is released, what the new value brought gets new cells.
Resettled(at, x, p, f, base) ==
    LET kept == {pc \in at : ~Below(pc[1], p, f)}
    IN  kept \cup Fresh({q \in Paths(x) : Below(q, p, f)}, base)

\* c.field = value; c.lhs.field = value; on the consumer's own clone or a subtree of it.
\* The assignment lands in the cell the expression lives in.
ReplaceField ==
    /\ copy # None
    /\ edits < MaxEdits
    /\ \E pc \in copyAt :
          \E f \in DOMAIN At(copy, pc[1]) \ {"tag"} :
              \E v \in FieldValues(At(copy, pc[1]).tag, f) :
                  /\ copy' = Stored(copy, copyAt, pc[2], f, v)
                  /\ node' = Stored(node, nodeAt, pc[2], f, v)
                  /\ copyAt' = Resettled(copyAt, copy', pc[1], f, LastCell(nodeAt \cup copyAt))
    /\ edits' = edits + 1
    /\ UNCHANGED <<supplied, program, nodeAt, reading, cursor, seen>>

\* fn transform(n: &Expression) -> Expression: a new tree built around what n holds.
Transform ==
    /\ node # None
    /\ edits < MaxEdits
    /\ copy' = Spread(ExpressionClone(node))
    /\ copyAt' = Allocate(copy', LastCell(nodeAt))
    /\ edits' = edits + 1
    /\ UNCHANGED <<node, supplied, program, nodeAt, reading, cursor, seen>>

\* ------------------------------------------------------------- the readers

\* The threads that traverse a finished tree through a shared reference.
Readers == {"r1", "r2"}

\* the tree the readers are handed: the Program once it is built, else the expression
Root == IF program # None THEN program ELSE node

\* A read that takes the value out and leaves a placeholder behind, as
\* std::mem::replace through a RefCell would.
DerefTaking(x, p) == [tree |-> Put(x, p, This), value |-> At(x, p)]

\* Reading through &Expression or &Program. No field of any node type is a Cell,
\* RefCell, Mutex or atomic, so a read yields the value and leaves the tree as it is.
Deref(x, p) == [tree |-> x, value |-> At(x, p)]

\* the tree after a read of it
Kept(tree) ==
    IF program # None
      THEN program' = tree /\ node' = node
      ELSE node' = tree /\ program' = program

\* let root = &tree; a reader is handed the finished tree and reads its root
Borrow(r) ==
    /\ r \notin reading
    /\ Root # None
    /\ reading' = reading \cup {r}
    /\ cursor' = [cursor EXCEPT ![r] = <<>>]
    /\ LET read == Deref(Root, <<>>)
       IN  /\ seen' = [seen EXCEPT ![r] = read.value]
           /\ Kept(read.tree)
    /\ UNCHANGED <<supplied, copy, edits, nodeAt, copyAt>>

\* match e { Member { lhs, .. } => visit(lhs), .. }: the reader steps to an owned expression
Visit(r) ==
    /\ r \in reading
    /\ \E s \in Slots(At(Root, cursor[r])) :
          LET read == Deref(Root, cursor[r] \o <<s>>)
          IN  /\ cursor' = [cursor EXCEPT ![r] = cursor[r] \o <<s>>]
              /\ seen' = [seen EXCEPT ![r] = read.value]
              /\ Kept(read.tree)
    /\ UNCHANGED <<supplied, copy, edits, nodeAt, copyAt, reading>>

\* the reader's reference goes out of scope
Release(r) ==
    /\ r \in reading
    /\ reading' = reading \ {r}
    /\ cursor' = [cursor EXCEPT ![r] = <<>>]
    /\ seen' = [seen EXCEPT ![r] = None]
    /\ UNCHANGED <<node, supplied, copy, edits, program, nodeAt, copyAt>>

\* ------------------------------------------------------- the specification

Init ==
    /\ node = None
    /\ supplied = <<>>
    /\ copy = None
    /\ edits = 0
    /\ program = None
    /\ nodeAt = {}
    /\ copyAt = {}
    /\ reading = {}
    /\ cursor = [r \in Readers |-> <<>>]
    /\ seen = [r \in Readers |-> None]

\* the producer's steps
Produce ==
    \/ MkThis
    \/ MkSuper
    \/ MkMetaProperty
    \/ MkIdReference
    \/ MkLiteral
    \/ MkRegexLiteral
    \/ MkFunction
    \/ MkArrayLiteral
    \/ MkObjectLiteral
    \/ MkTemplateLiteral
    \/ MkSpread
    \/ MkMember
    \/ MkNew
    \/ MkCall
    \/ MkTaggedTemplate
    \/ MkUpdate
    \/ MkUnary
    \/ MkBinary
    \/ MkConditional
    \/ MkAssignment
    \/ MkYield
    \/ MkComma
    \/ MkJsxElement
    \/ MkJsxFragment
    \/ Drop
    \/ MkProgram

\* The producer and one consumer that clones what was built and works on its clone.
Next ==
    \/ Produce
    \/ CloneNode
    \/ CloneProgram
    \/ ReplaceField
    \/ Transform

Spec == Init /\ [][Next]_vars

\* The producer and the readers it shares its finished trees with.
NextShared ==
    \/ Produce
    \/ \E r \in Readers : Borrow(r)
    \/ \E r \in Readers : Visit(r)
    \/ \E r \in Readers : Release(r)

SharedSpec == Init /\ [][NextShared]_vars

\* ------------------------------------------------------------ the types

IsOptionOf(x, S) == x = None \/ (x.tag = "Some" /\ DOMAIN x = {"tag", "f0"} /\ x.f0 \in S)

IsVecOf(xs, S) == \A i \in 1..Len(xs) : xs[i] \in S

IsRegexLiteral(x) ==
    DOMAIN x = {"struct", "pattern", "flags"} /\ x.pattern \in STRING /\ x.flags \in STRING

IsTemplateElement(x) ==
    DOMAIN x = {"struct", "cooked", "raw"} /\ x.cooked \in STRING /\ x.raw \in STRING

RECURSIVE IsExpression(_)

IsVecOfExpression(xs) == \A i \in 1..Len(xs) : IsExpression(xs[i])

IsProperty(x) ==
    /\ DOMAIN x = {"struct", "key", "value", "kind"}
    /\ IsExpression(x.key)
    /\ IsExpression(x.value)
    /\ x.kind \in PropertyKind

IsTemplateLiteralElement(x) ==
    \/ x.tag = "TemplateElement" /\ IsTemplateElement(x.f0)
    \/ x.tag = "Expression" /\ IsExpression(x.f0)

IsJsxAttribute(x) ==
    \/ x.tag = "JsxSpreadAttribute" /\ IsExpression(x.expression)
    \/ /\ x.tag = "JsxAttribute"
       /\ x.name \in STRING
       /\ x.value = None \/ (x.value.tag = "Some" /\ IsExpression(x.value.f0))

\* x is a value of enum Expression
IsExpression(x) ==
    /\ x.tag \in ExpressionTags
    /\ CASE x.tag \in {"This", "Super", "MetaProperty"} -> DOMAIN x = {"tag"}
         [] x.tag = "IdReference" -> x.f0 \in STRING
         [] x.tag = "Literal" -> x.f0 \in ExpressionLiteral
         [] x.tag \in {"ArrayLiteral", "Comma", "JsxFragment"} -> IsVecOfExpression(x.f0)
         [] x.tag = "ObjectLiteral" -> \A i \in 1..Len(x.f0) : IsProperty(x.f0[i])
         [] x.tag = "Function" ->
                /\ IsOptionOf(x.id, STRING)
                /\ IsVecOf(x.params, STRING)
                /\ IsVecOf(x.body, Statement)
                /\ x.async \in BOOLEAN
                /\ x.generator \in BOOLEAN
         [] x.tag = "RegexLiteral" -> IsRegexLiteral(x.f0)
         [] x.tag = "TemplateLiteral" ->
                \A i \in 1..Len(x.f0) : IsTemplateLiteralElement(x.f0[i])
         [] x.tag = "Spread" -> IsExpression(x.f0)
         [] x.tag = "Member" ->
                IsExpression(x.lhs) /\ IsExpression(x.rhs) /\ x.computed \in BOOLEAN
         [] x.tag \in {"New", "Call"} ->
                IsExpression(x.callee) /\ IsVecOfExpression(x.arguments)
         [] x.tag = "TaggedTemplate" -> IsExpression(x.tagfn) /\ IsExpression(x.quasi)
         [] x.tag = "Update" ->
                /\ x.operator \in UpdateOperator
                /\ IsExpression(x.argument)
                /\ x.prefix \in BOOLEAN
         [] x.tag = "Unary" -> x.operator \in UnaryOperator /\ IsExpression(x.argument)
         [] x.tag = "Binary" ->
                x.operator \in BinaryOperator /\ IsExpression(x.lhs) /\ IsExpression(x.rhs)
         [] x.tag = "Conditional" ->
                IsExpression(x.test) /\ IsExpression(x.alternate) /\ IsExpression(x.consequent)
         [] x.tag = "Assignment" ->
                /\ x.operator \in AssignmentOperator
                /\ IsExpression(x.lhs)
                /\ IsExpression(x.rhs)
         [] x.tag = "Yield" ->
                /\ x.argument = None \/ (x.argument.tag = "Some" /\ IsExpression(x.argument.f0))
                /\ x.delegate \in BOOLEAN
         [] x.tag = "JsxElement" ->
                /\ x.name \in STRING
                /\ \A i \in 1..Len(x.attributes) : IsJsxAttribute(x.attributes[i])
                /\ IsVecOfExpression(x.children)

\* x is a value of struct Program
IsProgram(x) ==
    /\ x.tag = "Program"
    /\ x.source_type \in SourceType
    /\ IsVecOf(x.body, Statement)

\* ---------------------------------------------------- downstream reading

\* alternate: "The expression returned if the test expression is truthy."
\* consequent: "The expression returned if the test expression is falsy."
SelectBranch(conditional, truthy) ==
    IF truthy THEN conditional.alternate ELSE conditional.consequent

\* The quasis of a template literal: its TemplateElement entries, in order.
SplitQuasis(elements) ==
    LET kept == SelectSeq(elements, LAMBDA e : e.tag = "TemplateElement")
    IN  [i \in 1..Len(kept) |-> kept[i].f0]

\* The expressions of a template literal: its Expression entries, in order.
SplitExpressions(elements) ==
    LET kept == SelectSeq(elements, LAMBDA e : e.tag = "Expression")
    IN  [i \in 1..Len(kept) |-> kept[i].f0]

\* quasi, expression, quasi, expression, ... and then what is left of the longer list
RECURSIVE Interleave(_, _)
Interleave(quasis, expressions) ==
    IF quasis = <<>>
      THEN [i \in 1..Len(expressions) |-> TLE_Expression(expressions[i])]
      ELSE IF expressions = <<>>
             THEN [i \in 1..Len(quasis) |-> TLE_TemplateElement(quasis[i])]
             ELSE <<TLE_TemplateElement(Head(quasis)), TLE_Expression(Head(expressions))>>
                      \o Interleave(Tail(quasis), Tail(expressions))

\* ================================================================ claims

IsExpressionNode(x) == x.tag \in ExpressionTags

\* x holds a NaN NumberLiteral at some depth
HasNaN(x) ==
    \E s \in Subexpressions(x) :
        s.tag = "Literal" /\ s.f0.tag = "NumberLiteral" /\ IsNaN(s.f0.f0)

\* copy is the clone CloneNode or CloneProgram made, not yet edited
FreshClone == copy # None /\ edits = 0

CloneEqualsOriginal ==
    IF copy.tag = "Program" THEN ProgramEq(copy, program) ELSE ExpressionEq(copy, node)

\* The parts of x that are nodes of the other node types equal their own clones.
PartsEqualTheirClones(x) ==
    /\ x.tag = "Literal" => ExpressionLiteralEq(ExpressionLiteralClone(x.f0), x.f0)
    /\ x.tag = "RegexLiteral" => RegexLiteralEq(RegexLiteralClone(x.f0), x.f0)
    /\ x.tag = "ObjectLiteral" =>
           \A i \in 1..Len(x.f0) : PropertyEq(PropertyClone(x.f0[i]), x.f0[i])
    /\ x.tag = "TemplateLiteral" =>
           \A i \in 1..Len(x.f0) :
               TemplateLiteralElementEq(TemplateLiteralElementClone(x.f0[i]), x.f0[i])
    /\ x.tag = "JsxElement" =>
           \A i \in 1..Len(x.attributes) :
               JsxAttributeEq(JsxAttributeClone(x.attributes[i]), x.attributes[i])

\* C1, as stated: for every constructible node n of every node type, every
\* NumberLiteral payload included, clone(n) == n under structural equality.
C1_CloneEqualsOriginal == FreshClone => CloneEqualsOriginal

\* C1, amended: clone(n) == n for every node n of every node type that holds no NaN
\* NumberLiteral at any depth; a node that holds one is not equal to its clone.
C1_CloneEqualsOriginalUnlessNaN ==
    FreshClone =>
        IF copy.tag = "Program"
          THEN ProgramEq(copy, program)
          ELSE /\ ExpressionEq(copy, node) <=> ~HasNaN(node)
               /\ ~HasNaN(node) => PartsEqualTheirClones(node)

\* a composite node with several children has been cloned
C1_Witness ==
    /\ FreshClone
    /\ node # None
    /\ node.tag = "ArrayLiteral"
    /\ Len(node.f0) = 2
    /\ ~HasNaN(node)

\* two sequences agree in length and, position by position, under eq
SeqEqualBy(eq(_, _), xs, ys) ==
    /\ Len(xs) = Len(ys)
    /\ \A i \in 1..Len(xs) : eq(xs[i], ys[i])

\* the payload f of two expressions with the given tag is equal, by the payload type's ==
PayloadEqual(tag, f, u, v) ==
    CASE f \in {"computed", "prefix", "delegate", "async", "generator", "operator", "name",
                "id", "params", "body"} -> u = v
      [] f \in {"lhs", "rhs", "callee", "tagfn", "quasi", "test", "alternate", "consequent"} ->
             ExpressionEq(u, v)
      [] f = "argument" ->
             IF tag = "Yield"
               THEN u.tag = v.tag /\ (u.tag = "Some" => ExpressionEq(u.f0, v.f0))
               ELSE ExpressionEq(u, v)
      [] f \in {"arguments", "children"} -> SeqEqualBy(ExpressionEq, u, v)
      [] f = "attributes" -> SeqEqualBy(JsxAttributeEq, u, v)
      [] f = "f0" /\ tag = "IdReference" -> u = v
      [] f = "f0" /\ tag = "Literal" -> ExpressionLiteralEq(u, v)
      [] f = "f0" /\ tag = "RegexLiteral" -> RegexLiteralEq(u, v)
      [] f = "f0" /\ tag = "Spread" -> ExpressionEq(u, v)
      [] f = "f0" /\ tag = "ObjectLiteral" -> SeqEqualBy(PropertyEq, u, v)
      [] f = "f0" /\ tag = "TemplateLiteral" -> SeqEqualBy(TemplateLiteralElementEq, u, v)
      [] f = "f0" /\ tag \in {"ArrayLiteral", "Comma", "JsxFragment"} ->
             SeqEqualBy(ExpressionEq, u, v)

\* same variant tag, and every payload field equal
SameTagAndPayloads(a, b) ==
    /\ a.tag = b.tag
    /\ \A f \in DOMAIN a \ {"tag"} : PayloadEqual(a.tag, f, a[f], b[f])

\* the expressions of the state: node, the consumer's copy, and their children
ExpressionsAtHand ==
    LET tops == {x \in {node, copy} : IsExpressionNode(x)}
    IN  tops \cup UNION {ChildExpressions(x) : x \in tops}

\* C2: a == b iff a and b have the same variant tag and every payload field is
\* recursively equal, sequences by length and position; two Update nodes that differ
\* only in the prefix flag are unequal.
C2_EqualityIsStructural ==
    /\ \A a \in ExpressionsAtHand, b \in ExpressionsAtHand :
           ExpressionEq(a, b) <=> SameTagAndPayloads(a, b)
    /\ (/\ IsExpressionNode(node) /\ IsExpressionNode(copy)
        /\ node.tag = "Update" /\ copy.tag = "Update"
        /\ node.prefix # copy.prefix)
           => ~ExpressionEq(node, copy) /\ ~ExpressionEq(copy, node)

\* ++a and a++: the consumer flipped the prefix flag of its clone of an Update
C2_Witness ==
    /\ IsExpressionNode(node) /\ IsExpressionNode(copy)
    /\ node.tag = "Update" /\ copy.tag = "Update"
    /\ node.operator = copy.operator
    /\ node.argument = copy.argument
    /\ node.prefix # copy.prefix

\* split and re-merged
RoundTrip(elements) == Interleave(SplitQuasis(elements), SplitExpressions(elements))

\* TemplateElement and Expression entries alternate strictly, a TemplateElement first
Alternates(elements) ==
    \A i \in 1..Len(elements) :
        elements[i].tag = (IF i % 2 = 1 THEN "TemplateElement" ELSE "Expression")

C4_ConditionalPairing ==
    (node.tag = "Conditional") =>
        /\ node.test = supplied[1]
        /\ node.alternate = supplied[2]
        /\ node.consequent = supplied[3]
        /\ SelectBranch(node, TRUE) = supplied[2]
        /\ SelectBranch(node, FALSE) = supplied[3]

\* a ? b : c
C4_Witness ==
    /\ node.tag = "Conditional"
    /\ supplied = <<IdReference("a"), IdReference("b"), IdReference("c")>>
    /\ node.alternate = IdReference("b")
    /\ node.consequent = IdReference("c")

\* C5: construction never validates and has no error outcome: whatever well-typed
\* payload a constructor is handed, the outcome is a node holding that payload.
C5_ConstructionIsTotal ==
    /\ node # None => IsExpression(node)
    /\ program # None => IsProgram(program)
    /\ node.tag = "TaggedTemplate" => node.tagfn = supplied[1] /\ node.quasi = supplied[2]
    /\ node.tag = "Yield" => node.argument = supplied[1] /\ node.delegate = supplied[2]
    /\ node.tag = "Assignment" => node.lhs = supplied[2] /\ node.rhs = supplied[3]
    /\ node.tag = "ObjectLiteral" => node.f0 = supplied[1]

\* a TaggedTemplate whose quasi is not a TemplateLiteral
C5_Witness ==
    /\ node.tag = "TaggedTemplate"
    /\ node.quasi.tag # "TemplateLiteral"
    /\ IsExpression(node)

\* an ObjectLiteral with a getter and a setter under one key
C5_WitnessGetSet ==
    /\ node.tag = "ObjectLiteral"
    /\ Len(node.f0) = 2
    /\ node.f0[1].key = node.f0[2].key
    /\ node.f0[1].kind = "Get"
    /\ node.f0[2].kind = "Set"

\* a Yield outside any generator Function, an Assignment to a literal
C5_WitnessYield == node.tag = "Yield" /\ node.argument # None

C5_WitnessAssignment == node.tag = "Assignment" /\ node.lhs.tag = "Literal"

\* the Binary expressions of the state
BinaryAtHand == {x \in {node, copy} : x.tag = "Binary"}

\* C6, as stated: the operator of every Binary expression is one of exactly 22 operators.
C6_TwentyTwoBinaryOperators ==
    \A x \in BinaryAtHand :
        x.operator \in BinaryOperator /\ Cardinality(BinaryOperator) = 22

\* C6, amended: the operator of every Binary expression is one of exactly 24 operators:
\* 4 equality, 4 relational, 3 shift, 5 arithmetic, 3 bitwise, 2 logical, and `in`,
\* `instanceof` and exponentiation.
C6_TwentyFourBinaryOperators ==
    \A x \in BinaryAtHand :
        /\ x.operator \in BinaryOperator
        /\ Cardinality(BinaryOperator) = 24
        /\ BinaryOperator =
               EqualityOperators \cup RelationalOperators \cup ShiftOperators
                   \cup ArithmeticOperators \cup BitwiseOperators \cup LogicalOperators
                   \cup {"In", "InstanceOf", "Exponentiation"}
        /\ Cardinality(EqualityOperators) = 4
        /\ Cardinality(RelationalOperators) = 4
        /\ Cardinality(ShiftOperators) = 3
        /\ Cardinality(ArithmeticOperators) = 5
        /\ Cardinality(BitwiseOperators) = 3
        /\ Cardinality(LogicalOperators) = 2

C6_Witness == node.tag = "Binary" /\ node.operator = "Exponentiation"

\* the Assignment expressions of the state
AssignmentAtHand == {x \in {node, copy} : x.tag = "Assignment"}

\* C7, as stated: the operator of every Assignment is one of exactly 11 operators.
C7_ElevenAssignmentOperators ==
    \A x \in AssignmentAtHand :
        x.operator \in AssignmentOperator /\ Cardinality(AssignmentOperator) = 11

\* C7, amended: the operator of every Assignment is one of exactly 12 operators, the
\* plain assignment and 11 compound forms.
C7_TwelveAssignmentOperators ==
    \A x \in AssignmentAtHand :
        /\ x.operator \in AssignmentOperator
        /\ Cardinality(AssignmentOperator) = 12
        /\ "Eq" \in AssignmentOperator
        /\ Cardinality(AssignmentOperator \ {"Eq"}) = 11

C7_Witness == node.tag = "Assignment" /\ node.operator = "Eq"

\* the Function expressions of the state, at any depth
FunctionsAtHand ==
    {x \in UNION {Subexpressions(t) : t \in {t \in {node, copy} : IsExpressionNode(t)}} :
        x.tag = "Function"}

\* C8: no Statement can be constructed, so the body of every Program and of every
\* Function, at any depth, is the empty sequence.
C8_BodiesAreEmpty ==
    /\ Statement = {}
    /\ \A x \in FunctionsAtHand : x.body = <<>>
    /\ program # None => program.body = <<>>
    /\ copy.tag = "Program" => copy.body = <<>>

\* a Function below another expression
C8_Witness ==
    /\ node # None
    /\ node.tag # "Function"
    /\ \E x \in Subexpressions(node) : x.tag = "Function" /\ x.generator

Reverse(xs) == [i \in 1..Len(xs) |-> xs[Len(xs) + 1 - i]]

\* C9: ArrayLiteral and ObjectLiteral hold their elements in the order they were
\* handed, a literal with the same elements in another order is unequal to it, and
\* the empty sequence is a valid payload.
C9_LiteralsAreOrdered ==
    /\ node.tag = "ArrayLiteral" =>
           /\ Len(node.f0) = Len(supplied[1])
           /\ \A i \in 1..Len(node.f0) : node.f0[i] = supplied[1][i]
           /\ IsExpression(node)
           /\ (\E i \in 1..Len(node.f0) : ~ExpressionEq(node.f0[i], Reverse(node.f0)[i]))
                  => ~ExpressionEq(node, ArrayLiteral(Reverse(supplied[1])))
    /\ node.tag = "ObjectLiteral" =>
           /\ Len(node.f0) = Len(supplied[1])
           /\ \A i \in 1..Len(node.f0) : node.f0[i] = supplied[1][i]
           /\ IsExpression(node)
           /\ (\E i \in 1..Len(node.f0) : ~PropertyEq(node.f0[i], Reverse(node.f0)[i]))
                  => ~ExpressionEq(node, ObjectLiteral(Reverse(supplied[1])))

\* [a, b], which [b, a] is unequal to
C9_Witness ==
    /\ node.tag = "ArrayLiteral"
    /\ Len(node.f0) = 2
    /\ ~ExpressionEq(node.f0[1], node.f0[2])
    /\ ExpressionEq(node.f0[1], node.f0[1])
    /\ ExpressionEq(node.f0[2], node.f0[2])

\* [] and {}
C9_WitnessEmptyArray == node = ArrayLiteral(<<>>)

C9_WitnessEmptyObject == node = ObjectLiteral(<<>>)

\* the regex and template literal expressions a Literal is compared with
RegexAndTemplateExpressions ==
    {RegexLiteralExpr(RegexLiteral(p, fl)) : p \in Patterns \cup StringLiteral, fl \in Flags}
        \cup {TemplateLiteral(es) :
                 es \in SeqsUpTo({TLE_TemplateElement(q) : q \in QuasiTexts}, 1)}

\* C10: the Literal sub-union has exactly the members null, boolean, number and
\* string, and no Literal expression equals a RegexLiteral or TemplateLiteral expression.
C10_LiteralSubUnion ==
    /\ ExpressionLiteralTags = {"NullLiteral", "BooleanLiteral", "NumberLiteral", "StringLiteral"}
    /\ Cardinality(ExpressionLiteralTags) = 4
    /\ \A x \in {x \in {node, copy} : x.tag = "Literal"} :
           /\ x.f0.tag \in ExpressionLiteralTags
           /\ \A r \in RegexAndTemplateExpressions \cup ExpressionsAtHand :
                  r.tag \in {"RegexLiteral", "TemplateLiteral"} =>
                      ~ExpressionEq(x, r) /\ ~ExpressionEq(r, x)
    /\ \A x \in ExpressionsAtHand :
           x.tag \in {"RegexLiteral", "TemplateLiteral"} =>
               \A l \in {l \in ExpressionsAtHand : l.tag = "Literal"} :
                   ~ExpressionEq(x, l) /\ ~ExpressionEq(l, x)

\* the string literal 's'
C10_Witness == node.tag = "Literal" /\ node.f0.tag = "StringLiteral"

\* every reader that holds a reference has read, at its cursor, what the tree holds
\* there, so two readers at the same expression have read the same value
ReadersAgree ==
    /\ \A r \in reading : seen[r] = At(Root, cursor[r])
    /\ \A r1 \in reading, r2 \in reading :
          cursor[r1] = cursor[r2] => seen[r1] = seen[r2]

\* C11: once a finished tree is shared, under every interleaving of the readers'
\* steps the tree stays as it is (no read step modifies a node, and its owner cannot
\* touch it while a reference is out), and every reader observes for every node the
\* value the tree holds there, the same for all readers.
C11_ReadersLeaveTreeUnchanged ==
    [][(reading # {} \/ reading' # {}) =>
          /\ node' = node
          /\ program' = program
          /\ nodeAt' = nodeAt
          /\ ReadersAgree']_vars

\* both readers stand at the same expression below the root
C11_Witness ==
    /\ reading = Readers
    /\ cursor["r1"] # <<>>
    /\ cursor["r1"] = cursor["r2"]
    /\ seen["r1"] = At(node, cursor["r1"])

\* the readers stand at different expressions of one tree
C11_WitnessApart ==
    /\ reading = Readers
    /\ cursor["r1"] # <<>>
    /\ cursor["r2"] # <<>>
    /\ cursor["r1"] # cursor["r2"]

\* a step of the consumer: it takes a clone, assigns into its clone, or builds a tree
ConsumerStep == copy' # None

\* C12 as stated: whatever the consumer does to the clone or builds from n, n is
\* afterwards structurally equal (==) to what it was before.
C12_OriginalStaysEqual ==
    [][ConsumerStep =>
          /\ node # None => ExpressionEq(node', node)
          /\ program # None => ProgramEq(program', program)]_vars

\* C12, amended: whatever the consumer does to the clone, to the clone's subtrees, or
\* builds from n, n keeps every field it had and lives in the cells it lived in, none
\* of them a cell of the clone; n is == to what it was before exactly when it holds
\* no NaN NumberLiteral.
C12_OriginalUntouched ==
    [][ConsumerStep =>
          /\ node' = node
          /\ program' = program
          /\ nodeAt' = nodeAt
          /\ Cells(copyAt') \cap Cells(nodeAt') = {}
          /\ node # None => (ExpressionEq(node', node) <=> ~HasNaN(node))
          /\ program # None => ProgramEq(program', program)]_vars

\* the consumer has assigned a field of an expression below the root of its clone
C12_Witness ==
    /\ copy # None
    /\ edits = 1
    /\ node.tag = "Member"
    /\ copy.tag = "Member"
    /\ copy.lhs.tag = "IdReference"
    /\ node.lhs.tag = "IdReference"
    /\ copy.lhs # node.lhs
    /\ copy.rhs = node.rhs

\* the consumer has built a new tree around what n holds
C12_WitnessTransform ==
    /\ copy # None
    /\ edits = 1
    /\ copy.tag = "Spread"
    /\ node.tag = "Binary"
    /\ copy.f0 = node

\* The ownership edges <<owner's cell, slot, owned cell>> of a tree living at `at`.
OwnershipEdges(at) ==
    {<<e[1][2], e[2][1][Len(e[2][1])], e[2][2]>> :
        e \in {d \in at \X at :
                  /\ Len(d[2][1]) = Len(d[1][1]) + 1
                  /\ SubSeq(d[2][1], 1, Len(d[1][1])) = d[1][1]}}

\* the cells reached from the cells S in at most n ownership steps
RECURSIVE OwnedWithin(_, _, _)
OwnedWithin(E, S, n) ==
    IF n = 0 THEN S
    ELSE OwnedWithin(E, S \cup {e[3] : e \in {d \in E : d[1] \in S}}, n - 1)

\* the cells a cell owns, directly or through the cells it owns
OwnedBy(E, c) ==
    OwnedWithin(E, {e[3] : e \in {d \in E : d[1] = c}}, Cardinality(E))

\* C13: after any sequence of construction steps the ownership graph is a forest:
\* its edges are the parent-to-child slots of the trees built (every expression has
\* its cell and nothing owns a root), no cell is reachable from itself, and every cell
\* is owned through at most one slot of at most one parent.
C13_OwnershipIsForest ==
    LET E == OwnershipEdges(nodeAt) \cup OwnershipEdges(copyAt)
        cells == Cells(nodeAt) \cup Cells(copyAt)
    IN  /\ node # None => {pc[1] : pc \in nodeAt} = Paths(node)
        /\ copy # None => {pc[1] : pc \in copyAt} = Paths(copy)
        /\ \A pc \in nodeAt \cup copyAt : pc[1] = <<>> => \A e \in E : e[3] # pc[2]
        /\ \A c \in cells : c \notin OwnedBy(E, c)
        /\ \A e1 \in E, e2 \in E : e1[3] = e2[3] => e1 = e2

\* a parent was composed of the child the producer held and an equal second child
C13_Witness ==
    /\ node.tag = "ArrayLiteral"
    /\ Len(node.f0) = 2
    /\ node.f0[1] = node.f0[2]
    /\ supplied = <<node.f0>>
    /\ Cardinality(OwnershipEdges(nodeAt)) = 2

====
